---- MODULE Spec2Model ----
(***************************************************************************)
(* A model of the RT-Thread memory heap (src/memheap.c): a pool of raw     *)
(* memory words holding in-band block headers, the pool descriptor, and    *)
(* threads that call rt_memheap_alloc / rt_memheap_realloc /               *)
(* rt_memheap_free.  Memory is an array of 4-byte words; a block header is *)
(* six consecutive words, exactly as struct rt_memheap_item lays them out  *)
(* on a 32-bit target, so a header written over another header or over a   *)
(* payload clobbers precisely the words the C stores clobber.              *)
(***************************************************************************)
EXTENDS Integers, Sequences, FiniteSets, TLC

VARIABLES mem, heap, th, held, hist, halt, ops

vars == <<mem, heap, th, held, hist, halt, ops>>

(***************************************************************************)
(* Program constants.                                                      *)
(***************************************************************************)
RT_MEMHEAP_MAGIC == 513810080
RT_MEMHEAP_USED == 1
RT_MEMHEAP_FREED == 0
RT_MEMHEAP_MINIALLOC == 12
RT_ALIGN_SIZE == 4
RT_NULL == 0

\* rt_size_t / rt_ubase_t / pointers are WordBits wide.  The target has 32;
\* TLC's integers are 32-bit signed, so the model wraps at 2^30, which keeps
\* every intermediate sum representable and every wrap-around of the code.
WordBits == 30
Modulus == 2 ^ WordBits
U(x) == x % Modulus

\* Bounds of the model.
PoolBytes == 144
MaxOps == 5

\* struct rt_memheap_item: byte offset of every field.
Off == [magic |-> 0, pool_ptr |-> 4, next |-> 8, prev |-> 12,
        next_free |-> 16, prev_free |-> 20]
SizeofItem == 6 * RT_ALIGN_SIZE

RT_ALIGN(size, align) == LET s == U(size + align - 1) IN s - (s % align)
RT_ALIGN_DOWN(size, align) == size - (size % align)
RT_MEMHEAP_SIZE == RT_ALIGN(SizeofItem, RT_ALIGN_SIZE)
RT_MEMHEAP_MASK(magic) == magic - (magic % 2)

\* Where the pool and its descriptor live.  &heap->free_header is the
\* address of the descriptor's embedded sentinel header.
PoolStart == 4096
HeapAddr(h) == 2048 + 64 * (h - 1)
FreeHeader(h) == HeapAddr(h)
HeapIds == {1}
\* the descriptor at addr, 0 when there is none
HeapOf(addr) == IF \E h \in DOMAIN heap : HeapAddr(h) = addr
                THEN CHOOSE h \in DOMAIN heap : HeapAddr(h) = addr
                ELSE 0

Words(lo, hi) == {a \in lo .. (hi - 1) : a % RT_ALIGN_SIZE = 0}

(***************************************************************************)
(* Memory access.  P is [mem, heap, fault]: the memory words, the          *)
(* descriptors, and whether an access left the modelled memory (the pool   *)
(* and the sentinel headers), which halts the system.                      *)
(***************************************************************************)
ValidItem(P, item) ==
    \A f \in DOMAIN Off : U(item + Off[f]) \in DOMAIN P.mem

Fld(P, item, f) ==
    LET a == U(item + Off[f])
    IN  IF a \in DOMAIN P.mem THEN P.mem[a] ELSE 0

SetFld(P, item, f, v) ==
    LET a == U(item + Off[f])
    IN  IF a \in DOMAIN P.mem THEN [P EXCEPT !.mem[a] = v]
        ELSE [P EXCEPT !.fault = TRUE]

\* A read through item: outside the modelled memory it faults.
Touch(P, item) == IF ValidItem(P, item) THEN P ELSE [P EXCEPT !.fault = TRUE]

RT_MEMHEAP_IS_USED(P, item) == Fld(P, item, "magic") % 2
MEMITEM_SIZE(P, item) == U(Fld(P, item, "next") - item - RT_MEMHEAP_SIZE)

SetHeap(P, h, f, v) == [P EXCEPT !.heap[h][f] = v]

\* The forms the stores of the code take.
\* dst->df = src->sf
Copy(P, dst, df, src, sf) == SetFld(P, dst, df, Fld(P, src, sf))
\* x->xf->df = v
SetVia(P, x, xf, df, v) == SetFld(P, Fld(P, x, xf), df, v)
\* x->xf->df = src->sf
CopyVia(P, x, xf, df, src, sf) ==
    SetFld(P, Fld(P, x, xf), df, Fld(P, src, sf))
\* heap->available_size = heap->available_size + delta
AddAvailable(P, h, delta) ==
    SetHeap(P, h, "available_size", U(P.heap[h].available_size + delta))
\* heap->available_size = heap->available_size +/- MEMITEM_SIZE(item)
AddAvailableOf(P, h, item, sign) ==
    AddAvailable(P, h, sign * MEMITEM_SIZE(P, item))

rt_sem_release(P, h) == SetHeap(P, h, "lock", P.heap[h].lock + 1)

(***************************************************************************)
(* rt_memheap_init: the free-list sentinel, one big FREE block, the USED   *)
(* zero-length tailer, and the counters.                                   *)
(***************************************************************************)
\* the tailer, were it left FREED
InitTailerFreed(P, h, tail, start_addr) ==
    LET T1 == SetFld(P, tail, "magic", RT_MEMHEAP_MAGIC + RT_MEMHEAP_FREED)
        T2 == SetFld(T1, tail, "pool_ptr", HeapAddr(h))
        T3 == SetFld(T2, tail, "next", start_addr)
        T4 == SetFld(T3, tail, "prev", start_addr)
        T5 == SetFld(T4, tail, "next_free", RT_NULL)
        T6 == SetFld(T5, tail, "prev_free", RT_NULL)
    IN  T6

\* the tailer (lines 148-155)
InitTailer(P, h, tail, start_addr) ==
    LET T1 == SetFld(P, tail, "magic", RT_MEMHEAP_MAGIC + RT_MEMHEAP_USED)
        T2 == SetFld(T1, tail, "pool_ptr", HeapAddr(h))
        T3 == SetFld(T2, tail, "next", start_addr)
        T4 == SetFld(T3, tail, "prev", start_addr)
        T5 == SetFld(T4, tail, "next_free", RT_NULL)
        T6 == SetFld(T5, tail, "prev_free", RT_NULL)
    IN  T6

\* what the tailer is reached through: item->next of the big block
InitTail(P, h, item, start_addr) ==
    InitTailer(P, h, Fld(P, item, "next"), start_addr)

rt_memheap_init(P, h, start_addr, size) ==
    LET pool_size == RT_ALIGN_DOWN(size, RT_ALIGN_SIZE)
        available == U(pool_size - 2 * RT_MEMHEAP_SIZE)
        D   == [P EXCEPT !.heap[h] =
                   [start_addr     |-> start_addr,
                    pool_size      |-> pool_size,
                    available_size |-> available,
                    max_used_size  |-> U(pool_size - available),
                    block_list     |-> start_addr,
                    free_list      |-> FreeHeader(h),
                    lock           |-> 1]]
        fh  == FreeHeader(h)
        \* the free list header
        S1  == SetFld(D,  fh, "magic", RT_MEMHEAP_MAGIC + RT_MEMHEAP_FREED)
        S2  == SetFld(S1, fh, "pool_ptr", HeapAddr(h))
        S3  == SetFld(S2, fh, "next", RT_NULL)
        S4  == SetFld(S3, fh, "prev", RT_NULL)
        S5  == SetFld(S4, fh, "next_free", fh)
        S6  == SetFld(S5, fh, "prev_free", fh)
        \* the first big memory block
        item == start_addr
        B1  == SetFld(S6, item, "magic", RT_MEMHEAP_MAGIC + RT_MEMHEAP_FREED)
        B2  == SetFld(B1, item, "pool_ptr", HeapAddr(h))
        B2a == SetFld(B2, item, "next", RT_NULL)
        B2b == SetFld(B2a, item, "prev", RT_NULL)
        B3  == SetFld(B2b, item, "next_free", item)
        B4  == SetFld(B3, item, "prev_free", item)
        B5  == SetFld(B4, item, "next", U(item + available + RT_MEMHEAP_SIZE))
        B6  == Copy(B5, item, "prev", item, "next")
        \* place the big memory block to free list
        B7  == Copy(B6, item, "next_free", fh, "next_free")
        B8  == SetFld(B7, item, "prev_free", fh)
        B9  == SetVia(B8, fh, "next_free", "prev_free", item)
        B10 == SetFld(B9, fh, "next_free", item)
    IN  InitTail(B10, h, item, start_addr)

(***************************************************************************)
(* rt_memheap_alloc.                                                       *)
(***************************************************************************)
\* the size, were it raised to the minimum but not rounded up
AllocSizeNotRounded(size) ==
    IF size < RT_MEMHEAP_MINIALLOC THEN RT_MEMHEAP_MINIALLOC ELSE size

\* align allocated size (lines 191-194)
AllocSize(size) ==
    LET s == RT_ALIGN(size, RT_ALIGN_SIZE)
    IN  IF s < RT_MEMHEAP_MINIALLOC THEN RT_MEMHEAP_MINIALLOC ELSE s

\* the early test, were it not strict
AllocGateNotStrict(size, available_size) == size <= available_size

\* the early test made before the lock is taken (line 199)
AllocGate(size, available_size) == size < available_size

\* the loop, were it to pass over a block that holds the size exactly
RECURSIVE AllocScanPassesExact(_, _, _, _, _, _)
AllocScanPassesExact(P, free_list, header_ptr, free_size, size, fuel) ==
    IF header_ptr = free_list \/ ~(free_size <= size)
    THEN [header_ptr |-> header_ptr, free_size |-> free_size, st |-> "ok"]
    ELSE IF ~ValidItem(P, header_ptr)
    THEN [header_ptr |-> header_ptr, free_size |-> free_size, st |-> "fault"]
    ELSE IF fuel = 0
    THEN [header_ptr |-> header_ptr, free_size |-> free_size, st |-> "hang"]
    ELSE LET fs == MEMITEM_SIZE(P, header_ptr)
         IN  IF fs <= size
             THEN AllocScanPassesExact(P, free_list,
                                       Fld(P, header_ptr, "next_free"),
                                       fs, size, fuel - 1)
             ELSE AllocScanPassesExact(P, free_list, header_ptr, fs, size,
                                       fuel - 1)

\* The first-fit loop (lines 214-224).  fuel bounds the walk: a free list
\* that no longer returns to the sentinel makes the C loop spin for ever.
RECURSIVE AllocScan(_, _, _, _, _, _)
AllocScan(P, free_list, header_ptr, free_size, size, fuel) ==
    IF header_ptr = free_list \/ ~(free_size < size)
    THEN [header_ptr |-> header_ptr, free_size |-> free_size, st |-> "ok"]
    ELSE IF ~ValidItem(P, header_ptr)
    THEN [header_ptr |-> header_ptr, free_size |-> free_size, st |-> "fault"]
    ELSE IF fuel = 0
    THEN [header_ptr |-> header_ptr, free_size |-> free_size, st |-> "hang"]
    ELSE LET fs == MEMITEM_SIZE(P, header_ptr)
         IN  IF fs < size
             THEN AllocScan(P, free_list, Fld(P, header_ptr, "next_free"),
                            fs, size, fuel - 1)
             ELSE AllocScan(P, free_list, header_ptr, fs, size, fuel - 1)

\* the split test (line 232)
AllocSplits(free_size, size) ==
    free_size >= U(size + RT_MEMHEAP_SIZE + RT_MEMHEAP_MINIALLOC)

\* x->next_free->prev_free = x->prev_free; x->prev_free->next_free =
\* x->next_free (lines 264-265, 299-300, 416-417, 530-531, 641-642)
ListRemove(P, x) ==
    LET R1 == CopyVia(P, x, "next_free", "prev_free", x, "prev_free")
        R2 == CopyVia(R1, x, "prev_free", "next_free", x, "next_free")
    IN  R2

\* remove header_ptr from the free list (lines 264-267, 299-302)
AllocUnlink(P, header_ptr) ==
    LET R2 == ListRemove(P, header_ptr)
        R3 == SetFld(R2, header_ptr, "next_free", RT_NULL)
        R4 == SetFld(R3, header_ptr, "prev_free", RT_NULL)
    IN  R4

\* insert item after the sentinel (lines 270-273, 450-453, 540-543,
\* 651-654)
InsertFree(P, h, item) ==
    LET fl == P.heap[h].free_list
        I1 == Copy(P, item, "next_free", fl, "next_free")
        I2 == SetFld(I1, item, "prev_free", fl)
        I3 == SetVia(I2, fl, "next_free", "prev_free", item)
        I4 == SetFld(I3, fl, "next_free", item)
    IN  I4

\* the high-water mark (lines 282-283, 289-290, 410-411)
UpdateMaxUsed(P, h) ==
    LET used == U(P.heap[h].pool_size - P.heap[h].available_size)
    IN  IF used > P.heap[h].max_used_size
        THEN SetHeap(P, h, "max_used_size", used) ELSE P

\* split: the block found is cut and the rest goes to the free list
\* (lines 236-283)
AllocSplit(P, h, header_ptr, size) ==
    LET new_ptr == U(header_ptr + size + RT_MEMHEAP_SIZE)
        N1 == SetFld(P, new_ptr, "magic", RT_MEMHEAP_MAGIC + RT_MEMHEAP_FREED)
        N2 == SetFld(N1, new_ptr, "pool_ptr", HeapAddr(h))
        \* break down the block list
        N3 == SetFld(N2, new_ptr, "prev", header_ptr)
        N4 == Copy(N3, new_ptr, "next", header_ptr, "next")
        N5 == SetVia(N4, header_ptr, "next", "prev", new_ptr)
        N6 == SetFld(N5, header_ptr, "next", new_ptr)
        N7 == AllocUnlink(N6, header_ptr)
        N8 == InsertFree(N7, h, new_ptr)
        N9 == AddAvailable(N8, h, 0 - size - RT_MEMHEAP_SIZE)
    IN  UpdateMaxUsed(N9, h)

\* the block found is consumed whole (lines 286-302)
AllocWhole(P, h, header_ptr, free_size) ==
    AllocUnlink(UpdateMaxUsed(AddAvailable(P, h, 0 - free_size), h),
                header_ptr)

\* The block found is taken: split or consumed whole, marked USED
\* (lines 227-306).  The result still holds the lock.
AllocTake(P, h, header_ptr, free_size, size) ==
    SetFld(IF AllocSplits(free_size, size)
           THEN AllocSplit(P, h, header_ptr, size)
           ELSE AllocWhole(P, h, header_ptr, free_size),
           header_ptr, "magic", RT_MEMHEAP_MAGIC + RT_MEMHEAP_USED)

\* The critical section of rt_memheap_alloc after the scan (lines 226-329):
\* the pool afterwards, lock released, and the pointer returned.
AllocCommit(P, h, header_ptr, free_size, size) ==
    IF free_size >= size
    THEN [P   |-> rt_sem_release(
                      AllocTake(Touch(P, header_ptr), h, header_ptr,
                                free_size, size), h),
          ret |-> U(header_ptr + RT_MEMHEAP_SIZE)]
    ELSE [P |-> rt_sem_release(P, h), ret |-> RT_NULL]

(***************************************************************************)
(* rt_memheap_free.                                                        *)
(***************************************************************************)
\* the checks, were the block's magic tested under the mask as its
\* successor's is
FreeChecksMasked(P, header_ptr) ==
    /\ ValidItem(P, header_ptr)
    /\ RT_MEMHEAP_MASK(Fld(P, header_ptr, "magic")) = RT_MEMHEAP_MAGIC
    /\ ValidItem(P, Fld(P, header_ptr, "next"))
    /\ RT_MEMHEAP_MASK(Fld(P, Fld(P, header_ptr, "next"), "magic"))
         = RT_MEMHEAP_MAGIC
    /\ HeapOf(Fld(P, header_ptr, "pool_ptr")) # 0

\* the checks made before the lock is taken (lines 578-592)
FreeChecks(P, header_ptr) ==
    /\ ValidItem(P, header_ptr)
    /\ Fld(P, header_ptr, "magic") = RT_MEMHEAP_MAGIC + RT_MEMHEAP_USED
    /\ ValidItem(P, Fld(P, header_ptr, "next"))
    /\ RT_MEMHEAP_MASK(Fld(P, Fld(P, header_ptr, "next"), "magic"))
         = RT_MEMHEAP_MAGIC
    /\ HeapOf(Fld(P, header_ptr, "pool_ptr")) # 0

\* mark the block FREE and count its payload (lines 603-606)
FreeMark(P, h, header_ptr) ==
    AddAvailableOf(SetFld(P, header_ptr, "magic",
                          RT_MEMHEAP_MAGIC + RT_MEMHEAP_FREED),
                   h, header_ptr, 1)

\* merge with the previous neighbor (lines 608-625)
FreeMergesLeft(P, header_ptr) ==
    RT_MEMHEAP_IS_USED(P, Fld(P, header_ptr, "prev")) = 0

FreeMergeLeft(P, h, header_ptr) ==
    LET L0 == Touch(P, Fld(P, header_ptr, "prev"))
        L1 == AddAvailable(L0, h, RT_MEMHEAP_SIZE)
        L2 == CopyVia(L1, header_ptr, "prev", "next", header_ptr, "next")
        L3 == CopyVia(L2, header_ptr, "next", "prev", header_ptr, "prev")
    IN  L3

\* merge with the next neighbor (lines 627-646)
FreeMergesRight(P, header_ptr) ==
    RT_MEMHEAP_IS_USED(P, Fld(P, header_ptr, "next")) = 0

FreeMergeRight(P, h, header_ptr) ==
    LET new_ptr == Fld(P, header_ptr, "next")
        M0 == Touch(P, new_ptr)
        M1 == AddAvailable(M0, h, RT_MEMHEAP_SIZE)
        M2 == SetVia(M1, new_ptr, "next", "prev", header_ptr)
        M3 == Copy(M2, header_ptr, "next", new_ptr, "next")
        \* remove new ptr from free list
    IN  ListRemove(M3, new_ptr)

\* the right neighbor is looked at and merged when FREE (lines 627-646)
FreeRight(P, h, header_ptr) ==
    IF FreeMergesRight(P, header_ptr)
    THEN FreeMergeRight(P, h, header_ptr)
    ELSE Touch(P, Fld(P, header_ptr, "next"))

\* after a merge to the left, header_ptr = header_ptr->prev and the block
\* is not inserted again (lines 621-624, 648)
FreeMerged(P, h, header_ptr) ==
    FreeRight(P, h, Fld(P, header_ptr, "prev"))

\* the neighbors are looked at and the block is put on the free list
\* (lines 608-659)
FreeJoin(P, h, header_ptr) ==
    IF FreeMergesLeft(P, header_ptr)
    THEN FreeMerged(FreeMergeLeft(P, h, header_ptr), h, header_ptr)
    ELSE InsertFree(FreeRight(Touch(P, Fld(P, header_ptr, "prev")), h,
                              header_ptr),
                    h, header_ptr)

\* The critical section of rt_memheap_free (lines 603-666), lock released.
FreeCS(P, h, ptr) ==
    rt_sem_release(
        FreeJoin(FreeMark(P, h, U(ptr - RT_MEMHEAP_SIZE)), h,
                 U(ptr - RT_MEMHEAP_SIZE)), h)

FreePath(P, ptr) ==
    LET hp0 == U(ptr - RT_MEMHEAP_SIZE)
        left == FreeMergesLeft(P, hp0)
        right == RT_MEMHEAP_IS_USED(P, Fld(P, hp0, "next")) = 0
    IN  IF left /\ right THEN "both" ELSE IF left THEN "left"
        ELSE IF right THEN "right" ELSE "none"

(***************************************************************************)
(* rt_memheap_realloc.                                                     *)
(***************************************************************************)
\* the in-place test (lines 390, 406)
GrowsInPlace(P, next_ptr, oldsize, newsize) ==
    /\ RT_MEMHEAP_IS_USED(P, next_ptr) = 0
    /\ U(MEMITEM_SIZE(P, next_ptr) + oldsize)
         > U(newsize + RT_MEMHEAP_MINIALLOC)

\* the in-place grow (lines 408-453); ptr + newsize wraps as the sizes do
GrowInPlace(P, h, ptr, header_ptr, oldsize, newsize) ==
    LET next_ptr == Fld(P, header_ptr, "next")
        G1 == AddAvailable(P, h, 0 - U(newsize - oldsize))
        G2 == UpdateMaxUsed(G1, h)
        \* remove next_ptr from free list and block list
        G4 == ListRemove(G2, next_ptr)
        G5 == CopyVia(G4, next_ptr, "next", "prev", next_ptr, "prev")
        G6 == CopyVia(G5, next_ptr, "prev", "next", next_ptr, "next")
        \* build a new one on the right place
        np == U(ptr + newsize)
        G7 == SetFld(G6, np, "magic", RT_MEMHEAP_MAGIC + RT_MEMHEAP_FREED)
        G8 == SetFld(G7, np, "pool_ptr", HeapAddr(h))
        G9 == SetFld(G8, np, "prev", header_ptr)
        G10 == Copy(G9, np, "next", header_ptr, "next")
        G11 == SetVia(G10, header_ptr, "next", "prev", np)
        G12 == SetFld(G11, header_ptr, "next", np)
    IN  InsertFree(G12, h, np)

\* The critical section of the grow case (lines 384-466), lock released:
\* "inplace" returns ptr, "fallback" goes on to allocate-copy-free,
\* "assert" is RT_ASSERT(next_ptr > header_ptr) failing.
ReallocGrow(P, h, ptr, header_ptr, oldsize, newsize) ==
    LET next_ptr == Fld(P, header_ptr, "next")
    IN  IF ~(next_ptr > header_ptr)
        THEN [P |-> P, st |-> "assert"]
        ELSE IF GrowsInPlace(Touch(P, next_ptr), next_ptr, oldsize, newsize)
        THEN [P  |-> rt_sem_release(
                        GrowInPlace(Touch(P, next_ptr), h, ptr, header_ptr,
                                    oldsize, newsize), h),
              st |-> "inplace"]
        ELSE [P |-> rt_sem_release(Touch(P, next_ptr), h), st |-> "fallback"]

\* don't split when there is less than one node space left (line 480)
ShrinkKeeps(oldsize, newsize) ==
    U(newsize + RT_MEMHEAP_SIZE + RT_MEMHEAP_MINIALLOC) >= oldsize

\* split the block (lines 492-516)
ShrinkSplit(P, h, header_ptr, new_ptr) ==
    LET S1 == SetFld(P, new_ptr, "magic", RT_MEMHEAP_MAGIC + RT_MEMHEAP_FREED)
        S2 == SetFld(S1, new_ptr, "pool_ptr", HeapAddr(h))
        \* break down the block list
        S3 == SetFld(S2, new_ptr, "prev", header_ptr)
        S4 == Copy(S3, new_ptr, "next", header_ptr, "next")
        S5 == SetVia(S4, header_ptr, "next", "prev", new_ptr)
        S6 == SetFld(S5, header_ptr, "next", new_ptr)
    IN  S6

\* merge block with next neighbor (lines 518-537)
ShrinkMerge(P, h, new_ptr, free_ptr) ==
    LET S7 == AddAvailableOf(P, h, free_ptr, 0 - 1)
        S8 == SetVia(S7, free_ptr, "next", "prev", new_ptr)
        S9 == Copy(S8, new_ptr, "next", free_ptr, "next")
    IN  ListRemove(S9, free_ptr)

\* the neighbor of the part split off is looked at and merged when FREE
ShrinkJoin(P, h, new_ptr) ==
    LET free_ptr == Fld(P, new_ptr, "next")
    IN  IF RT_MEMHEAP_IS_USED(P, free_ptr) = 0
        THEN Touch(ShrinkMerge(P, h, new_ptr, free_ptr), free_ptr)
        ELSE Touch(P, free_ptr)

\* The critical section of the shrink case (lines 492-552), lock released.
ReallocShrink(P, h, header_ptr, newsize) ==
    LET new_ptr == U(header_ptr + newsize + RT_MEMHEAP_SIZE)
        S6  == ShrinkSplit(P, h, header_ptr, new_ptr)
        S12 == ShrinkJoin(S6, h, new_ptr)
        S13 == InsertFree(S12, h, new_ptr)
        S14 == AddAvailableOf(S13, h, new_ptr, 1)
    IN  rt_sem_release(S14, h)

\* rt_memcpy of n bytes, word by word
rt_memcpy(P, dst, src, n) ==
    IF n > Cardinality(DOMAIN P.mem) * RT_ALIGN_SIZE
       \/ \E i \in Words(0, n) : U(dst + i) \notin DOMAIN P.mem
                                 \/ U(src + i) \notin DOMAIN P.mem
    THEN [P EXCEPT !.fault = TRUE]
    ELSE [P EXCEPT !.mem = [a \in DOMAIN P.mem |->
              IF a >= dst /\ a < dst + n THEN P.mem[src + (a - dst)]
              ELSE P.mem[a]]]

(***************************************************************************)
(* The calls, start to end, as one thread runs them.  Each yields the pool *)
(* afterwards, the value returned, the path taken, and st: "ok" when the   *)
(* call returned, "assert" when an RT_ASSERT stopped the system, "fault"   *)
(* when an access left the modelled memory, "hang" when the first-fit loop *)
(* never ends, "blocked" when the semaphore is never given.                *)
(***************************************************************************)
Outcome(P, ret, st, rpath, apath, fpath) ==
    [P |-> P, ret |-> ret,
     st |-> IF P.fault /\ st = "ok" THEN "fault" ELSE st,
     rpath |-> rpath, apath |-> apath, fpath |-> fpath]

\* rt_sem_take(&heap->lock, RT_WAITING_FOREVER) when the semaphore is free.
\* The semaphore lives as long as the pool: a take waits and then returns
\* RT_EOK, it does not fail.
SemTaken(P, h) == SetHeap(P, h, "lock", P.heap[h].lock - 1)

\* the first-fit loop run from free_list->next_free (lines 213-224)
ScanOf(P, h, size) ==
    AllocScan(P, P.heap[h].free_list,
              Fld(P, P.heap[h].free_list, "next_free"), 0, size,
              Cardinality(DOMAIN P.mem))

AllocPath(free_size, size) ==
    IF ~(free_size >= size) THEN "nofit"
    ELSE IF AllocSplits(free_size, size) THEN "split" ELSE "whole"

\* rt_memheap_alloc returns what the critical section c yields
AllocReturns(c, apath) == Outcome(c.P, c.ret, "ok", "", apath, "")

\* rt_memheap_alloc with the lock held and the scan s done
AllocScanned(L, h, size, s) ==
    IF s.st # "ok"
    THEN Outcome(L, RT_NULL, s.st, "", "", "")
    ELSE AllocReturns(AllocCommit(L, h, s.header_ptr, s.free_size, size),
                      AllocPath(s.free_size, size))

rt_memheap_alloc(P, h, size0) ==
    LET size == AllocSize(size0)
    IN  IF ~AllocGate(size, P.heap[h].available_size)
        THEN Outcome(P, RT_NULL, "ok", "", "gate", "")
        ELSE IF ~(P.heap[h].lock > 0)
        THEN Outcome(P, RT_NULL, "blocked", "", "", "")
        ELSE AllocScanned(SemTaken(P, h), h, size,
                          ScanOf(SemTaken(P, h), h, size))

rt_memheap_free(P, ptr) ==
    LET header_ptr == U(ptr - RT_MEMHEAP_SIZE)
        h == HeapOf(Fld(P, header_ptr, "pool_ptr"))
    IN  IF ptr = RT_NULL
        THEN Outcome(P, RT_NULL, "ok", "", "", "null")
        ELSE IF ~FreeChecks(P, header_ptr)
        THEN Outcome(P, RT_NULL, "assert", "", "", "")
        ELSE IF ~(P.heap[h].lock > 0)
        THEN Outcome(P, RT_NULL, "blocked", "", "", "")
        ELSE Outcome(FreeCS(SemTaken(P, h), h, ptr), RT_NULL, "ok", "", "",
                     FreePath(P, ptr))

\* the old block is freed after the copy; the new one is returned
\* (lines 473-476)
FallbackFreed(f, a) ==
    Outcome(f.P, a.ret, f.st, "fallback_ok", a.apath, f.fpath)

\* the fallback, were it to free the old block whether or not the new one
\* was got
FallbackAllocatedFreesAnyway(a, ptr, n) ==
    IF a.st # "ok"
    THEN Outcome(a.P, RT_NULL, a.st, "fallback", a.apath, "")
    ELSE IF a.ret = RT_NULL
    THEN Outcome(rt_memheap_free(a.P, ptr).P, RT_NULL, "ok", "fallback_null",
                 a.apath, "")
    ELSE FallbackFreed(rt_memheap_free(rt_memcpy(a.P, a.ret, ptr, n), ptr), a)

\* the fallback after its rt_memheap_alloc yields a (lines 469-476)
FallbackAllocated(a, ptr, n) ==
    IF a.st # "ok"
    THEN Outcome(a.P, RT_NULL, a.st, "fallback", a.apath, "")
    ELSE IF a.ret = RT_NULL
    THEN Outcome(a.P, RT_NULL, "ok", "fallback_null", a.apath, "")
    ELSE FallbackFreed(rt_memheap_free(rt_memcpy(a.P, a.ret, ptr, n), ptr), a)

\* the allocate-copy-free fallback (lines 468-476)
ReallocFallback(P, h, ptr, oldsize, newsize) ==
    FallbackAllocated(rt_memheap_alloc(P, h, newsize), ptr,
                      IF oldsize < newsize THEN oldsize ELSE newsize)

\* rt_memheap_realloc of size 0 returns after its rt_memheap_free yields f
ReallocZeroFreed(f) == Outcome(f.P, RT_NULL, f.st, "zero", "", f.fpath)

\* size 0, were the block left alone
ReallocZeroKeeps(P, ptr) == Outcome(P, RT_NULL, "ok", "zero", "", "none")

\* rt_memheap_realloc of size 0 (lines 349-354)
ReallocZero(P, ptr) == ReallocZeroFreed(rt_memheap_free(P, ptr))

\* rt_memheap_realloc of a null pointer returns what its rt_memheap_alloc
\* yields (lines 360-363)
ReallocNull(a) == Outcome(a.P, a.ret, a.st, "null", a.apath, "")

\* the grow case after its critical section yields g (lines 384-476)
ReallocGrown(g, h, ptr, oldsize, newsize) ==
    IF g.st = "assert"
    THEN Outcome(g.P, RT_NULL, "assert", "", "", "")
    ELSE IF g.st = "inplace"
    THEN Outcome(g.P, ptr, "ok", "inplace", "", "")
    ELSE ReallocFallback(g.P, h, ptr, oldsize, newsize)

rt_memheap_realloc(P, h, ptr, newsize0) ==
    LET newsize == AllocSize(newsize0)
        header_ptr == U(ptr - RT_MEMHEAP_SIZE)
        oldsize == MEMITEM_SIZE(P, header_ptr)
        merge == RT_MEMHEAP_IS_USED(P, Fld(P, header_ptr, "next")) = 0
    IN  IF newsize0 = 0
        THEN ReallocZero(P, ptr)
        ELSE IF ptr = RT_NULL
        THEN ReallocNull(rt_memheap_alloc(P, h, newsize))
        ELSE IF newsize > oldsize
        THEN IF ~(P.heap[h].lock > 0)
             THEN Outcome(P, RT_NULL, "blocked", "", "", "")
             ELSE ReallocGrown(
                      ReallocGrow(SemTaken(Touch(P, header_ptr), h), h, ptr,
                                  header_ptr, oldsize, newsize),
                      h, ptr, oldsize, newsize)
        ELSE IF ShrinkKeeps(oldsize, newsize)
        THEN Outcome(Touch(P, header_ptr), ptr, "ok", "keep", "", "")
        ELSE IF ~(P.heap[h].lock > 0)
        THEN Outcome(P, RT_NULL, "blocked", "", "", "")
        ELSE Outcome(ReallocShrink(SemTaken(Touch(P, header_ptr), h), h,
                                   header_ptr, newsize),
                     ptr, "ok",
                     IF merge THEN "shrink_merge" ELSE "shrink_split", "", "")

(***************************************************************************)
(* The caller.  held is what each thread owns: the pointers it got, each   *)
(* with the size it asked for last.  A caller that gets a fresh block      *)
(* writes                                                                  *)
(* the bytes it asked for at once; every word gets a value that tells      *)
(* where it was written.  hist is the last call of the single thread: its  *)
(* arguments, its result and the path it took.                             *)
(***************************************************************************)
Threads == DOMAIN th

Pool == [mem |-> mem, heap |-> heap, fault |-> FALSE]

\* the request sizes a caller passes
ReqSizes == {0, 10, 24, 52, Modulus - 1, Modulus - 8, Modulus - 12}

DataBase == 100001

\* the bytes written: those asked for, as far as the block got reaches
FillBytes(m, p, n) ==
    LET P   == [mem |-> m, fault |-> FALSE]
        cap == MEMITEM_SIZE(P, U(p - RT_MEMHEAP_SIZE))
    IN  IF n > cap THEN cap ELSE RT_ALIGN_DOWN(n, RT_ALIGN_SIZE)

UserFill(m, p, n) ==
    [a \in DOMAIN m |->
        IF a >= p /\ a < p + FillBytes(m, p, n) THEN DataBase + a ELSE m[a]]

\* a call of thread t returns r: what the caller owns afterwards
Ptrs(t) == {b.p : b \in held[t]}

Owned(t, op, n, p, r) ==
    LET without == {b \in held[t] : b.p # p}
        got     == [p |-> r, n |-> n]
    IN  CASE op = "alloc"   -> IF r # RT_NULL
                               THEN held[t] \cup {got}
                               ELSE held[t]
          [] op = "free"    -> without
          [] op = "realloc" ->
               IF n = 0 THEN without
               ELSE IF r = RT_NULL THEN held[t]
               ELSE without \cup {got}

\* the block returned is a fresh one: rt_memheap_alloc, or
\* rt_memheap_realloc of a null pointer
Fresh(op, n, p, r) ==
    r # RT_NULL /\ (op = "alloc" \/ (op = "realloc" /\ p = RT_NULL /\ n # 0))

NoHist == [op |-> "none", n |-> 0, p |-> 0, ret |-> 0,
           rpath |-> "", apath |-> "", fpath |-> ""]

\* the call op(n, p) of the single thread ends as o tells
Ends(t, op, n, p, o) ==
    /\ heap' = o.P.heap
    /\ halt' = (IF o.st = "ok" THEN "run" ELSE o.st)
    /\ mem' = IF o.st = "ok" /\ Fresh(op, n, p, o.ret)
              THEN UserFill(o.P.mem, o.ret, n) ELSE o.P.mem
    /\ held' = IF o.st = "ok"
               THEN [held EXCEPT ![t] = Owned(t, op, n, p, o.ret)] ELSE held
    /\ hist' = [op |-> op, n |-> n, p |-> p, ret |-> o.ret,
                rpath |-> o.rpath, apath |-> o.apath, fpath |-> o.fpath]
    /\ ops' = ops + 1
    /\ UNCHANGED th

\* the caller may make a call
Calls == halt = "run" /\ ops < MaxOps

Alloc(t, h, n) ==
    /\ Calls
    /\ Ends(t, "alloc", n, RT_NULL, rt_memheap_alloc(Pool, h, n))

Free(t, ptr) ==
    /\ Calls
    /\ Ends(t, "free", 0, ptr, rt_memheap_free(Pool, ptr))

Realloc(t, h, ptr, n) ==
    /\ Calls
    /\ Ends(t, "realloc", n, ptr, rt_memheap_realloc(Pool, h, ptr, n))

\* a caller at fault: the pointer just freed is freed once more
FreeAgain(t) ==
    /\ Calls
    /\ hist.op = "free" /\ hist.p # RT_NULL
    /\ Ends(t, "free", 0, hist.p, rt_memheap_free(Pool, hist.p))

InitPool(bytes) ==
    rt_memheap_init(
        [mem   |-> [a \in Words(PoolStart, PoolStart + bytes)
                          \cup Words(FreeHeader(1), FreeHeader(1) + SizeofItem)
                      |-> 0],
         heap  |-> [h \in HeapIds |-> <<>>],
         fault |-> FALSE],
        1, PoolStart, bytes)

Idle == [pc |-> "idle"]

InitWith(threads, bytes) ==
    /\ mem = InitPool(bytes).mem
    /\ heap = InitPool(bytes).heap
    /\ th = [t \in threads |-> Idle]
    /\ held = [t \in threads |-> {}]
    /\ hist = NoHist
    /\ halt = "run"
    /\ ops = 0

Init == InitWith({1}, PoolBytes)

Next ==
    \/ \E t \in Threads, h \in HeapIds, n \in ReqSizes : Alloc(t, h, n)
    \/ \E t \in Threads : \E p \in Ptrs(t) : Free(t, p)
    \/ \E t \in Threads, h \in HeapIds, n \in ReqSizes :
          \E p \in Ptrs(t) \cup {RT_NULL} : Realloc(t, h, p, n)
    \/ \E t \in Threads : FreeAgain(t)

Spec == Init /\ [][Next]_vars

(***************************************************************************)
(* The calls step by step, as threads that run at the same time make them. *)
(* A step is what a thread does between two points where another thread    *)
(* may run: the reads made before rt_sem_take, rt_sem_take itself, and the *)
(* stretches of the critical sections.  th[t] is where thread t is (pc)    *)
(* and the locals of its call.                                             *)
(***************************************************************************)
ReqSizesMT == {10, 52, Modulus - 8, Modulus - 12}
PoolBytesMT == 176
MaxCalls == 4

Call(op, h, n, p, pc) ==
    [pc |-> pc, op |-> op, h |-> h, n |-> n, p |-> p, size |-> 0,
     oldsize |-> 0, header_ptr |-> 0, free_size |-> 0, q |-> RT_NULL]

At(t, pc) == halt = "run" /\ th[t].pc = pc

\* thread t may start a call
Starts(t) == At(t, "idle") /\ ops < MaxCalls /\ ops' = ops + 1

\* the system stops
Stops(st) == halt' = st /\ UNCHANGED <<mem, heap, th, held, hist>>

\* the step leaves pool P and thread t as T
Goes(t, P, T) ==
    /\ mem' = P.mem
    /\ heap' = P.heap
    /\ th' = [th EXCEPT ![t] = T]
    /\ halt' = IF P.fault THEN "fault" ELSE "run"
    /\ UNCHANGED hist

\* the call of thread t returns r
Returns(t, P, op, n, p, r) ==
    /\ Goes(t, P, Idle)
    /\ held' = IF P.fault THEN held
               ELSE [held EXCEPT ![t] = Owned(t, op, n, p, r)]

\* rt_memheap_alloc up to rt_sem_take (lines 191-205)
AllocEntry(t, T) ==
    LET size == AllocSize(T.n)
    IN  IF AllocGate(size, heap[T.h].available_size)
        THEN Goes(t, Pool, [T EXCEPT !.pc = "alloc_take", !.size = size])
             /\ UNCHANGED held
        ELSE Returns(t, Pool, T.op, T.n, T.p, RT_NULL)

\* rt_memheap_free up to rt_sem_take (lines 570-595)
FreeEntry(t, P, T) ==
    LET header_ptr == U(T.p - RT_MEMHEAP_SIZE)
    IN  IF T.p = RT_NULL
        THEN Returns(t, P, T.op, T.n, T.p, RT_NULL)
        ELSE IF ~FreeChecks(P, header_ptr)
        THEN Stops("assert")
        ELSE Goes(t, P, [T EXCEPT
                            !.pc = "free_take",
                            !.h = HeapOf(Fld(P, header_ptr, "pool_ptr"))])
             /\ UNCHANGED held

AllocBegin(t, h, n) ==
    /\ Starts(t)
    /\ AllocEntry(t, Call("alloc", h, n, RT_NULL, "idle"))

FreeBegin(t, ptr) ==
    /\ Starts(t)
    /\ FreeEntry(t, Pool, Call("free", 0, 0, ptr, "idle"))

\* rt_memheap_realloc up to rt_sem_take (lines 349-387, 480-490)
ReallocBegin(t, h, ptr, n) ==
    LET T == Call("realloc", h, n, ptr, "idle")
        header_ptr == U(ptr - RT_MEMHEAP_SIZE)
        oldsize == MEMITEM_SIZE(Pool, header_ptr)
        newsize == AllocSize(n)
        R == [T EXCEPT !.size = newsize, !.oldsize = oldsize,
                       !.header_ptr = header_ptr]
    IN  /\ Starts(t)
        /\ IF n = 0 THEN FreeEntry(t, Pool, T)
           ELSE IF ptr = RT_NULL THEN AllocEntry(t, T)
           ELSE IF newsize > oldsize
           THEN Goes(t, Touch(Pool, header_ptr), [R EXCEPT !.pc = "grow_take"])
                /\ UNCHANGED held
           ELSE IF ShrinkKeeps(oldsize, newsize)
           THEN Returns(t, Touch(Pool, header_ptr), "realloc", n, ptr, ptr)
           ELSE Goes(t, Touch(Pool, header_ptr),
                     [R EXCEPT !.pc = "shrink_take"])
                /\ UNCHANGED held

\* rt_sem_take(&heap->lock, RT_WAITING_FOREVER) (lines 205, 377, 484, 595)
AfterTake == [alloc_take |-> "alloc_scan", free_take |-> "free_cs",
              grow_take |-> "grow_cs", shrink_take |-> "shrink_cs"]

SemTake(t) ==
    /\ halt = "run"
    /\ th[t].pc \in DOMAIN AfterTake
    /\ heap[th[t].h].lock > 0
    /\ Goes(t, SemTaken(Pool, th[t].h),
            [th[t] EXCEPT !.pc = AfterTake[th[t].pc]])
    /\ UNCHANGED <<held, ops>>

\* the first-fit loop (lines 213-224)
AllocScanStep(t) ==
    /\ At(t, "alloc_scan")
    /\ LET s == ScanOf(Pool, th[t].h, th[t].size)
       IN  IF s.st # "ok" THEN Stops(s.st)
           ELSE Goes(t, Pool, [th[t] EXCEPT !.pc = "alloc_commit",
                                            !.header_ptr = s.header_ptr,
                                            !.free_size = s.free_size])
                /\ UNCHANGED held
    /\ UNCHANGED ops

\* the block is taken and the call returns (lines 226-335); a call made by
\* rt_memheap_realloc to move a block returns into it (line 468)
AllocCommitStep(t) ==
    /\ At(t, "alloc_commit")
    /\ LET T == th[t]
           c == AllocCommit(Pool, T.h, T.header_ptr, T.free_size, T.size)
       IN  IF T.op = "realloc" /\ T.p # RT_NULL /\ c.ret # RT_NULL
           THEN Goes(t, c.P, [T EXCEPT !.pc = "fb_copy", !.q = c.ret])
                /\ UNCHANGED held
           ELSE Returns(t, c.P, T.op, T.n, T.p, c.ret)
    /\ UNCHANGED ops

\* the critical section of rt_memheap_free, and its return (lines 603-666);
\* called to finish a move, rt_memheap_realloc returns the new block
FreeStep(t) ==
    /\ At(t, "free_cs")
    /\ LET T == th[t]
       IN  Returns(t, FreeCS(Pool, T.h, T.p), T.op, T.n, T.p, T.q)
    /\ UNCHANGED ops

\* the critical section of the grow case (lines 384-466)
GrowStep(t) ==
    /\ At(t, "grow_cs")
    /\ LET T == th[t]
           g == ReallocGrow(Pool, T.h, T.p, T.header_ptr, T.oldsize, T.size)
       IN  IF g.st = "assert" THEN Stops("assert")
           ELSE IF g.st = "inplace"
           THEN Returns(t, g.P, T.op, T.n, T.p, T.p)
           ELSE Goes(t, g.P, [T EXCEPT !.pc = "fb_alloc"]) /\ UNCHANGED held
    /\ UNCHANGED ops

\* the call of rt_memheap_alloc that moves a block, up to rt_sem_take
\* (line 468)
FallbackAlloc(t) ==
    /\ At(t, "fb_alloc")
    /\ IF AllocGate(AllocSize(th[t].size), heap[th[t].h].available_size)
       THEN Goes(t, Pool, [th[t] EXCEPT !.pc = "alloc_take"])
            /\ UNCHANGED held
       ELSE Returns(t, Pool, th[t].op, th[t].n, th[t].p, RT_NULL)
    /\ UNCHANGED ops

\* rt_memcpy to the new block and the call of rt_memheap_free on the old
\* one, up to rt_sem_take (lines 472-473)
FallbackCopy(t) ==
    /\ At(t, "fb_copy")
    /\ LET T == th[t]
           n == IF T.oldsize < T.size THEN T.oldsize ELSE T.size
       IN  FreeEntry(t, rt_memcpy(Pool, T.q, T.p, n), T)
    /\ UNCHANGED ops

\* the critical section of the shrink case (lines 488-555)
ShrinkStep(t) ==
    /\ At(t, "shrink_cs")
    /\ LET T == th[t]
       IN  Returns(t, ReallocShrink(Pool, T.h, T.header_ptr, T.size),
                   T.op, T.n, T.p, T.p)
    /\ UNCHANGED ops

InitMT == InitWith({1, 2}, PoolBytesMT)

NextMT ==
    \/ \E t \in Threads, h \in HeapIds, n \in ReqSizesMT : AllocBegin(t, h, n)
    \/ \E t \in Threads : \E p \in Ptrs(t) : FreeBegin(t, p)
    \/ \E t \in Threads, h \in HeapIds, n \in ReqSizesMT \cup {0} :
          \E p \in Ptrs(t) \cup {RT_NULL} : ReallocBegin(t, h, p, n)
    \/ \E t \in Threads : SemTake(t)
    \/ \E t \in Threads : AllocScanStep(t)
    \/ \E t \in Threads : AllocCommitStep(t)
    \/ \E t \in Threads : FreeStep(t)
    \/ \E t \in Threads : GrowStep(t)
    \/ \E t \in Threads : FallbackAlloc(t)
    \/ \E t \in Threads : FallbackCopy(t)
    \/ \E t \in Threads : ShrinkStep(t)

SpecMT == InitMT /\ [][NextMT]_vars

(***************************************************************************)
(* rt_sem_take that fails.  The semaphore is kernel code: taking it either *)
(* succeeds as above or, when the semaphore is deleted or in an invalid    *)
(* state, returns an error code and leaves the count alone.  The caller    *)
(* stores the code in its thread's error slot (rt_set_errno) and returns   *)
(* (lines 206-211, 378-382, 485-490, 596-601).                             *)
(***************************************************************************)
RT_EOK == 0
RT_ERROR == 1
SemErrors == {0 - RT_ERROR}

\* rt_set_errno(result): thread t is back from its call with the code in
\* its error slot
Failed(result) == [pc |-> "idle", error |-> result]

\* the pool the early return leaves, were the semaphore released on the
\* way out
TakeFailedReleases(P, h) == rt_sem_release(P, h)

\* the pool the early return after a failed take leaves (lines 206-211,
\* 378-382, 485-490, 596-601)
TakeFailed(P, h) == P

\* what the call of thread t returns when its take fails: rt_memheap_alloc
\* and rt_memheap_realloc NULL; rt_memheap_free nothing, and a move that
\* called it returns the new block (lines 210, 381, 473-476, 489, 600)
FailedRet(T) == IF T.pc = "free_take" THEN T.q ELSE RT_NULL

SemTakeFails(t, result) ==
    /\ halt = "run"
    /\ th[t].pc \in DOMAIN AfterTake
    /\ result # RT_EOK
    /\ mem' = TakeFailed(Pool, th[t].h).mem
    /\ heap' = TakeFailed(Pool, th[t].h).heap
    /\ th' = [th EXCEPT ![t] = Failed(result)]
    /\ held' = [held EXCEPT ![t] = Owned(t, th[t].op, th[t].n, th[t].p,
                                        FailedRet(th[t]))]
    /\ UNCHANGED <<hist, halt, ops>>

NextErr ==
    \/ \E t \in Threads, h \in HeapIds, n \in ReqSizesMT : AllocBegin(t, h, n)
    \/ \E t \in Threads : \E p \in Ptrs(t) : FreeBegin(t, p)
    \/ \E t \in Threads, h \in HeapIds, n \in ReqSizesMT \cup {0} :
          \E p \in Ptrs(t) \cup {RT_NULL} : ReallocBegin(t, h, p, n)
    \/ \E t \in Threads : SemTake(t)
    \/ \E t \in Threads, result \in SemErrors : SemTakeFails(t, result)
    \/ \E t \in Threads : AllocScanStep(t)
    \/ \E t \in Threads : AllocCommitStep(t)
    \/ \E t \in Threads : FreeStep(t)
    \/ \E t \in Threads : GrowStep(t)
    \/ \E t \in Threads : FallbackAlloc(t)
    \/ \E t \in Threads : FallbackCopy(t)
    \/ \E t \in Threads : ShrinkStep(t)

SpecErr == InitMT /\ [][NextErr]_vars

(***************************************************************************)
(* rt_memheap_init called on a raw region with any size: the region and    *)
(* the descriptor hold nothing, and the one step is the call.              *)
(***************************************************************************)
MaxInitSize == 120
InitSizes == 0 .. MaxInitSize

\* the region and the descriptor before rt_memheap_init
Raw(bytes) ==
    [mem   |-> [a \in Words(PoolStart, PoolStart + bytes)
                      \cup Words(FreeHeader(1), FreeHeader(1) + SizeofItem)
                  |-> 0],
     heap  |-> [h \in HeapIds |-> <<>>],
     fault |-> FALSE]

InitRaw ==
    /\ mem = Raw(MaxInitSize).mem
    /\ heap = Raw(MaxInitSize).heap
    /\ th = [t \in {1} |-> Idle]
    /\ held = [t \in {1} |-> {}]
    /\ hist = NoHist
    /\ halt = "run"
    /\ ops = 0

\* rt_memheap_init returns, leaving the pool P
Inited(P, size) ==
    /\ mem' = P.mem
    /\ heap' = P.heap
    /\ halt' = IF P.fault THEN "fault" ELSE "run"
    /\ hist' = [NoHist EXCEPT !.op = "init", !.n = size, !.p = PoolStart]
    /\ ops' = ops + 1
    /\ UNCHANGED <<th, held>>

MemheapInit(size) ==
    /\ hist.op = "none"
    /\ Inited(rt_memheap_init(Pool, 1, PoolStart, size), size)

NextInit == \E size \in InitSizes : MemheapInit(size)

SpecInit == InitRaw /\ [][NextInit]_vars

(***************************************************************************)
(* The pool of the worked examples: 1024 bytes at 0x1000, and the sizes    *)
(* the examples ask for.                                                   *)
(***************************************************************************)
ExPoolBytes == 1024
ExSizes == {100, 150, 200}

InitEx == InitWith({1}, ExPoolBytes)

NextEx ==
    \/ \E t \in Threads, h \in HeapIds, n \in ExSizes : Alloc(t, h, n)
    \/ \E t \in Threads : \E p \in Ptrs(t) : Free(t, p)
    \/ \E t \in Threads, h \in HeapIds, n \in ExSizes :
          \E p \in Ptrs(t) : Realloc(t, h, p, n)

SpecEx == InitEx /\ [][NextEx]_vars

(***************************************************************************)
(* Six calls in a row with fewer sizes: long enough for the data a caller  *)
(* writes into a fresh block to land on a header that a wrapped size has   *)
(* left inside that block.                                                 *)
(***************************************************************************)
MaxDataOps == 6
DataSizes == {0, 10, 24, 52, Modulus - 12}

CallsData == halt = "run" /\ ops < MaxDataOps

AllocData(t, h, n) ==
    /\ CallsData
    /\ Ends(t, "alloc", n, RT_NULL, rt_memheap_alloc(Pool, h, n))

FreeData(t, ptr) ==
    /\ CallsData
    /\ Ends(t, "free", 0, ptr, rt_memheap_free(Pool, ptr))

ReallocData(t, h, ptr, n) ==
    /\ CallsData
    /\ Ends(t, "realloc", n, ptr, rt_memheap_realloc(Pool, h, ptr, n))

NextData ==
    \/ \E t \in Threads, h \in HeapIds, n \in DataSizes : AllocData(t, h, n)
    \/ \E t \in Threads : \E p \in Ptrs(t) : FreeData(t, p)
    \/ \E t \in Threads, h \in HeapIds, n \in DataSizes :
          \E p \in Ptrs(t) : ReallocData(t, h, p, n)

SpecData == Init /\ [][NextData]_vars

(***************************************************************************)
(* Two pools, each with its own descriptor and region, and one caller      *)
(* that passes either descriptor to rt_memheap_alloc and                   *)
(* rt_memheap_realloc, whichever pool the block came from.                 *)
(***************************************************************************)
TwoHeaps == {1, 2}
TwoPoolBytes == 120
MaxTwoOps == 4
TwoSizes == {0, 10, 24, 40}

\* where the region of pool h starts
TwoStart(h) == PoolStart * h

TwoRaw ==
    [mem   |-> [a \in UNION {Words(TwoStart(h), TwoStart(h) + TwoPoolBytes)
                               \cup Words(FreeHeader(h),
                                          FreeHeader(h) + SizeofItem)
                             : h \in TwoHeaps}
                  |-> 0],
     heap  |-> [h \in TwoHeaps |-> <<>>],
     fault |-> FALSE]

\* rt_memheap_init of pool 1, then of pool 2
TwoPools ==
    rt_memheap_init(rt_memheap_init(TwoRaw, 1, TwoStart(1), TwoPoolBytes),
                    2, TwoStart(2), TwoPoolBytes)

InitTwo ==
    /\ mem = TwoPools.mem
    /\ heap = TwoPools.heap
    /\ th = [t \in {1} |-> Idle]
    /\ held = [t \in {1} |-> {}]
    /\ hist = NoHist
    /\ halt = "run"
    /\ ops = 0

CallsTwo == halt = "run" /\ ops < MaxTwoOps

AllocTwo(t, h, n) ==
    /\ CallsTwo
    /\ Ends(t, "alloc", n, RT_NULL, rt_memheap_alloc(Pool, h, n))

FreeTwo(t, ptr) ==
    /\ CallsTwo
    /\ Ends(t, "free", 0, ptr, rt_memheap_free(Pool, ptr))

ReallocTwo(t, h, ptr, n) ==
    /\ CallsTwo
    /\ Ends(t, "realloc", n, ptr, rt_memheap_realloc(Pool, h, ptr, n))

NextTwo ==
    \/ \E t \in Threads, h \in TwoHeaps, n \in TwoSizes : AllocTwo(t, h, n)
    \/ \E t \in Threads : \E p \in Ptrs(t) : FreeTwo(t, p)
    \/ \E t \in Threads, h \in TwoHeaps, n \in TwoSizes :
          \E p \in Ptrs(t) : ReallocTwo(t, h, p, n)

SpecTwo == InitTwo /\ [][NextTwo]_vars

(***************************************************************************)
(* What the claims talk about: the physical block list, the free list,     *)
(* payload sizes.                                                          *)
(***************************************************************************)
TheHeap == 1
Tailer == U(heap[TheHeap].start_addr + heap[TheHeap].pool_size - RT_MEMHEAP_SIZE)
InPool(b) == b \in Words(heap[TheHeap].start_addr, Tailer + 1)

\* the blocks found by following next from b; 0 ends a walk that leaves
\* the pool, goes backwards or does not end
RECURSIVE ChainFrom(_, _)
ChainFrom(b, fuel) ==
    IF b = Tailer THEN <<b>>
    ELSE IF fuel = 0 \/ ~InPool(b) \/ ~(Fld(Pool, b, "next") > b) THEN <<b, 0>>
    ELSE <<b>> \o ChainFrom(Fld(Pool, b, "next"), fuel - 1)

Chain == ChainFrom(heap[TheHeap].block_list, Cardinality(DOMAIN mem))
ChainEnds == Chain[Len(Chain)] = Tailer
Blocks == {Chain[i] : i \in 1 .. Len(Chain)} \ {0, Tailer}
IsFree(b) == RT_MEMHEAP_IS_USED(Pool, b) = 0
FreeBlocks == {b \in Blocks : IsFree(b)}
Payload(b) == Fld(Pool, b, "next") - b - RT_MEMHEAP_SIZE

\* the nodes found by following next_free from the sentinel, the sentinel
\* left out; 0 ends a walk that leaves the memory or does not come back
RECURSIVE FreeFrom(_, _)
FreeFrom(x, fuel) ==
    IF x = heap[TheHeap].free_list THEN <<>>
    ELSE IF fuel = 0 \/ ~ValidItem(Pool, x) THEN <<0>>
    ELSE <<x>> \o FreeFrom(Fld(Pool, x, "next_free"), fuel - 1)

FreeList == FreeFrom(Fld(Pool, heap[TheHeap].free_list, "next_free"),
                     Cardinality(DOMAIN mem))
FreeNodes == {FreeList[i] : i \in 1 .. Len(FreeList)}

RECURSIVE SumPayload(_)
SumPayload(S) ==
    IF S = {} THEN 0
    ELSE LET b == CHOOSE x \in S : TRUE IN Payload(b) + SumPayload(S \ {b})

\* C1: following next from block_list reaches the tailer through strictly
\* increasing addresses starting at start_addr, every block b before the
\* tailer has b.next.prev = b, and every header visited carries the magic.
C1_BlockList ==
    halt = "run" =>
        /\ ChainEnds
        /\ Chain[1] = heap[TheHeap].start_addr
        /\ \A i \in 1 .. Len(Chain) - 1 :
              /\ Chain[i + 1] > Chain[i]
              /\ Fld(Pool, Chain[i + 1], "prev") = Chain[i]
        /\ \A i \in 1 .. Len(Chain) :
              RT_MEMHEAP_MASK(Fld(Pool, Chain[i], "magic")) = RT_MEMHEAP_MAGIC

\* what thread t has been given: the blocks it holds and the block a
\* move in progress has allocated for it
Live(t) ==
    held[t] \cup
    (IF th[t].pc \in {"fb_copy", "free_take", "free_cs"} /\ th[t].q # RT_NULL
     THEN {[p |-> th[t].q, n |-> th[t].n]} ELSE {})

\* C2: with threads running the calls at the same time, no block is given
\* twice and no byte asked for belongs to two live allocations.
C2_NoSharedBytes ==
    halt = "run" =>
        \A t1 \in Threads, t2 \in Threads :
            \A b1 \in Live(t1), b2 \in Live(t2) :
                (t1 # t2 \/ b1 # b2) =>
                    /\ b1.p # b2.p
                    /\ b1.p + b1.n <= b2.p \/ b2.p + b2.n <= b1.p

\* C3: with the lock free, available_size is the sum of the payloads of the
\* FREE blocks.
C3_Available ==
    halt = "run" /\ heap[TheHeap].lock > 0 =>
        heap[TheHeap].available_size = SumPayload(FreeBlocks)

\* C4: with the lock free, the free list is a ring through the sentinel
\* that holds every FREE block once, no USED block and not the tailer, and
\* x.next_free.prev_free = x for every node x of it.
C4_FreeList ==
    halt = "run" /\ heap[TheHeap].lock > 0 =>
        /\ 0 \notin FreeNodes
        /\ FreeNodes = FreeBlocks
        /\ Cardinality(FreeNodes) = Len(FreeList)
        /\ \A x \in FreeNodes \cup {heap[TheHeap].free_list} :
              Fld(Pool, Fld(Pool, x, "next_free"), "prev_free") = x

\* C5: no two physically adjacent blocks are both FREE.
C5_Coalesced ==
    halt = "run" =>
        \A i \in 1 .. Len(Chain) - 1 :
            ~(/\ Chain[i] # 0 /\ Chain[i + 1] # 0
              /\ IsFree(Chain[i]) /\ IsFree(Chain[i + 1]))

\* the last call returned (the system did not stop in it) and was op
Did(op) == halt = "run" /\ hist.op = op

\* C6: the block rt_memheap_alloc returns holds the n bytes asked for.
C6_Capacity ==
    Did("alloc") /\ hist.ret # RT_NULL =>
        hist.ret + hist.n
            <= Fld(Pool, U(hist.ret - RT_MEMHEAP_SIZE), "next")

\* C7: rt_memheap_realloc that returns NULL because neither the grow in
\* place nor the fallback allocation works leaves every word of the pool
\* (so the block's header: its USED flag, its address, its size), the
\* descriptor and what the caller holds as they were before the call.
C7_FailedGrowKeeps ==
    [][hist'.op = "realloc" /\ hist'.rpath = "fallback_null" =>
          /\ hist'.ret = RT_NULL
          /\ mem' = mem /\ heap' = heap /\ held' = held /\ halt' = "run"]_vars

C7_Witness ==
    /\ Did("realloc") /\ hist.rpath = "fallback_null"
    /\ hist.ret = RT_NULL /\ hist.p \in Ptrs(1)
    /\ hist.n = 24
    /\ RT_MEMHEAP_IS_USED(Pool, U(hist.p - RT_MEMHEAP_SIZE)) = 1
    /\ C1_BlockList

\* a FREE block that can hold size bytes
Fits(size) == {b \in FreeBlocks : Payload(b) >= size}

\* C8 as stated: rt_memheap_alloc returns NULL only when no FREE block can
\* hold the normalized size.
C8_NullOnlyIfNoFit ==
    Did("alloc") /\ hist.ret = RT_NULL => Fits(AllocSize(hist.n)) = {}

\* a block on the free list that can hold size bytes
FitsOnList(size) ==
    {x \in FreeNodes \ {0} : MEMITEM_SIZE(Pool, x) >= size}

\* C8 amended: rt_memheap_alloc returns NULL exactly when the normalized
\* size is not below available_size or no block on the free list can hold
\* it; with the size below available_size and such a block it returns a
\* pointer.
C8_NullIffGateOrNoFit ==
    [][hist'.op = "alloc" /\ halt' = "run" =>
          (hist'.ret = RT_NULL <=>
              \/ ~(AllocSize(hist'.n) < heap[TheHeap].available_size)
              \/ FitsOnList(AllocSize(hist'.n)) = {})]_vars

C8_Witness ==
    /\ Did("alloc") /\ hist.ret = RT_NULL /\ hist.apath = "gate"
    /\ Fits(AllocSize(hist.n)) # {}
    /\ AllocSize(hist.n) = heap[TheHeap].available_size

\* C9: the payload bytes of a reallocated block, as many as the smaller of
\* its old size and the normalized new size, are at the pointer returned.
C9_Preserves ==
    [][/\ hist'.op = "realloc" /\ halt' = "run"
       /\ hist'.p # RT_NULL /\ hist'.n # 0 /\ hist'.ret # RT_NULL
       => LET old == MEMITEM_SIZE(Pool, U(hist'.p - RT_MEMHEAP_SIZE))
              new == AllocSize(hist'.n)
              len == IF old < new THEN old ELSE new
          IN  \A a \in DOMAIN mem :
                 a >= hist'.p /\ a < hist'.p + len =>
                    /\ hist'.ret + (a - hist'.p) \in DOMAIN mem
                    /\ mem'[hist'.ret + (a - hist'.p)] = mem[a]]_vars

\* the step leaves the pool, the system and the caller as the call that
\* yields f on the block at p leaves them
LeavesWhat(f, p) ==
    /\ mem' = f.P.mem
    /\ heap' = f.P.heap
    /\ halt' = (IF f.st = "ok" THEN "run" ELSE f.st)
    /\ (f.st = "ok" => held'[1] = {b \in held[1] : b.p # p})

\* C10: rt_memheap_realloc(heap, p, 0) returns NULL and leaves what
\* rt_memheap_free(p) leaves.
C10_ZeroFrees ==
    [][hist'.op = "realloc" /\ hist'.n = 0 /\ hist'.p # RT_NULL =>
          /\ hist'.ret = RT_NULL
          /\ LeavesWhat(rt_memheap_free(Pool, hist'.p), hist'.p)]_vars

C10_Witness ==
    /\ Did("realloc") /\ hist.n = 0 /\ hist.p # RT_NULL
    /\ hist.fpath = "both"
    /\ IsFree(heap[TheHeap].start_addr)

\* the step leaves the pool, the system and the caller as the call of
\* rt_memheap_alloc that yields a for n bytes leaves them
LeavesAlloc(a, n) ==
    /\ heap' = a.P.heap
    /\ halt' = (IF a.st = "ok" THEN "run" ELSE a.st)
    /\ mem' = IF a.st = "ok" /\ a.ret # RT_NULL
              THEN UserFill(a.P.mem, a.ret, n) ELSE a.P.mem
    /\ (a.st = "ok" =>
           held'[1] = IF a.ret # RT_NULL
                      THEN held[1] \cup {[p |-> a.ret, n |-> n]} ELSE held[1])

\* C11: rt_memheap_realloc(heap, NULL, n) returns what rt_memheap_alloc(heap,
\* n) returns and leaves the pool it leaves, for every n, 0 included.
C11_NullIsAlloc ==
    [][hist'.op = "realloc" /\ hist'.p = RT_NULL =>
          /\ hist'.ret = rt_memheap_alloc(Pool, TheHeap, hist'.n).ret
          /\ LeavesAlloc(rt_memheap_alloc(Pool, TheHeap, hist'.n),
                         hist'.n)]_vars

\* C11 for the sizes other than 0
C11_NullIsAllocNonZero ==
    [][hist'.op = "realloc" /\ hist'.p = RT_NULL /\ hist'.n # 0 =>
          /\ hist'.ret = rt_memheap_alloc(Pool, TheHeap, hist'.n).ret
          /\ LeavesAlloc(rt_memheap_alloc(Pool, TheHeap, hist'.n),
                         hist'.n)]_vars

\* C12: once every pointer got has been freed the pool is as rt_memheap_init
\* left it: one FREE block at start_addr with payload pool_size - 2H, the
\* tailer after it, a free list of length 1, available_size = pool_size - 2H.
C12_BackToInitial ==
    halt = "run" /\ held[1] = {} =>
        /\ Chain = <<heap[TheHeap].start_addr, Tailer>>
        /\ IsFree(heap[TheHeap].start_addr)
        /\ Payload(heap[TheHeap].start_addr)
             = heap[TheHeap].pool_size - 2 * RT_MEMHEAP_SIZE
        /\ FreeList = <<heap[TheHeap].start_addr>>
        /\ heap[TheHeap].available_size
             = heap[TheHeap].pool_size - 2 * RT_MEMHEAP_SIZE

\* C13: max_used_size >= pool_size - available_size between operations.
C13_HighWater ==
    halt = "run" =>
        heap[TheHeap].max_used_size
            >= heap[TheHeap].pool_size - heap[TheHeap].available_size

\* C13 with the difference taken as the code takes it, in rt_size_t
C13_HighWaterWrapped ==
    halt = "run" =>
        heap[TheHeap].max_used_size
            >= U(heap[TheHeap].pool_size - heap[TheHeap].available_size)

(***************************************************************************)
(* The threads under a fair scheduler and a FIFO semaphore: a thread that  *)
(* can take a step of its call takes it in the end, and a thread waiting   *)
(* in rt_sem_take gets the semaphore in the end when it is given again and *)
(* again (rt_sem_init with RT_IPC_FLAG_FIFO, line 158).                    *)
(***************************************************************************)
ThreadsMT == {1, 2}

\* a step of the call of thread t that does not wait
Runs(t) ==
    \/ AllocScanStep(t) \/ AllocCommitStep(t) \/ FreeStep(t) \/ GrowStep(t)
    \/ FallbackAlloc(t) \/ FallbackCopy(t) \/ ShrinkStep(t)

\* where such a step is possible: ENABLED <<Runs(t)>>_vars
RunPcs == {"alloc_scan", "alloc_commit", "free_cs", "grow_cs", "shrink_cs",
           "fb_alloc", "fb_copy"}
CanRun(t) == halt = "run" /\ th[t].pc \in RunPcs

\* WF_vars(Runs(t)), with ENABLED <<Runs(t)>>_vars written as CanRun(t),
\* and SF_vars(SemTake(t))
FairMT ==
    \A t \in ThreadsMT :
        /\ []<>(~CanRun(t)) \/ []<><<Runs(t)>>_vars
        /\ SF_vars(SemTake(t))

SpecMTFair == SpecMT /\ FairMT

\* where a thread holds the semaphore
InCS == {"alloc_scan", "alloc_commit", "free_cs", "grow_cs", "shrink_cs"}

\* C14, the lock: the semaphore count is 1 less the threads inside a
\* critical section, so every take is matched by one release and the lock
\* is free whenever no call is in progress.
C14_LockBalanced ==
    heap[TheHeap].lock
        = 1 - Cardinality({t \in ThreadsMT : th[t].pc \in InCS})

\* thread t is in a call that has not returned: on its way, or stopped in
\* an RT_ASSERT or in a loop without end
InCall(t) == th[t].pc # "idle" \/ halt \in {"assert", "hang"}

\* C14: every call of every thread returns in the end (a call that ends in
\* an access outside the pool is left out: what follows it is undefined).
C14_Returns ==
    \A t \in ThreadsMT : InCall(t) ~> (~InCall(t) \/ halt = "fault")

\* the block at ptr fails a check of rt_memheap_free: its magic is not
\* MAGIC | USED, or its successor's magic is not MAGIC under the mask
BadMagic(ptr) ==
    \/ Fld(Pool, U(ptr - RT_MEMHEAP_SIZE), "magic")
         # RT_MEMHEAP_MAGIC + RT_MEMHEAP_USED
    \/ RT_MEMHEAP_MASK(Fld(Pool, Fld(Pool, U(ptr - RT_MEMHEAP_SIZE), "next"),
                           "magic")) # RT_MEMHEAP_MAGIC

TooSmall(size) == size < 3 * RT_MEMHEAP_SIZE + RT_MEMHEAP_MINIALLOC

\* C16: rt_memheap_init with a size too small for the initial blocks stops
\* in an assertion, and no call leaves a pool whose available_size is
\* above its pool_size (a call that writes outside the region it was given
\* is not held against the claim: what follows it is undefined).
C16_InitRejects ==
    hist.op = "init" =>
        /\ TooSmall(hist.n) => halt \in {"assert", "fault"}
        /\ halt = "run" =>
              heap[TheHeap].available_size <= heap[TheHeap].pool_size

\* C17: after rt_memheap_init with a size that holds the two headers,
\* pool_size is the size rounded down to A, available_size is pool_size -
\* 2H, the block list is a FREE block at start with that payload and the
\* USED tailer at start + H + available_size, whose next and prev are start,
\* the free list is the sentinel and the big block, and the lock is free.
C17_AfterInit ==
    hist.op = "init" /\ hist.n >= 2 * RT_MEMHEAP_SIZE =>
        LET start == heap[TheHeap].start_addr
            avail == heap[TheHeap].available_size
            tail  == start + RT_MEMHEAP_SIZE + avail
            fh    == heap[TheHeap].free_list
        IN  /\ halt = "run"
            /\ start = hist.p
            /\ heap[TheHeap].pool_size = hist.n - (hist.n % RT_ALIGN_SIZE)
            /\ avail = heap[TheHeap].pool_size - 2 * RT_MEMHEAP_SIZE
            /\ heap[TheHeap].block_list = start
            /\ Chain = <<start, tail>>
            /\ Fld(Pool, start, "magic") = RT_MEMHEAP_MAGIC + RT_MEMHEAP_FREED
            /\ Payload(start) = avail
            /\ Fld(Pool, start, "prev") = tail
            /\ Fld(Pool, tail, "magic") = RT_MEMHEAP_MAGIC + RT_MEMHEAP_USED
            /\ Fld(Pool, tail, "next") = start
            /\ Fld(Pool, tail, "prev") = start
            /\ tail + RT_MEMHEAP_SIZE = start + heap[TheHeap].pool_size
            /\ fh = FreeHeader(TheHeap)
            /\ FreeList = <<start>>
            /\ Fld(Pool, fh, "next_free") = start
            /\ Fld(Pool, fh, "prev_free") = start
            /\ Fld(Pool, start, "next_free") = fh
            /\ Fld(Pool, start, "prev_free") = fh
            /\ heap[TheHeap].lock = 1

\* a size that is not a multiple of A, within the precondition
C17_Witness ==
    /\ hist.op = "init" /\ halt = "run"
    /\ ~TooSmall(hist.n) /\ hist.n % RT_ALIGN_SIZE = 2
    /\ heap[TheHeap].available_size > 0

\* the fresh pool of the examples on which alloc(100) has returned start + H
Ex100 ==
    /\ ops = 1 /\ halt = "run"
    /\ hist.op = "alloc" /\ hist.n = 100
    /\ hist.ret = PoolStart + RT_MEMHEAP_SIZE

\* the step is rt_memheap_realloc(heap, start + H, 150) made on it
ExGrow150 ==
    /\ Ex100
    /\ hist'.op = "realloc" /\ hist'.n = 150
    /\ hist'.p = PoolStart + RT_MEMHEAP_SIZE

\* C18 as stated, with H the header size of the model: the call returns the
\* pointer and leaves available_size = (pool_size - 2H) - 150 - H, which is
\* 1000 - 150 - 12 = 838 for H = 12.
C18_Grow150 ==
    [][ExGrow150 =>
          /\ hist'.ret = hist'.p
          /\ heap'[TheHeap].available_size
               = (ExPoolBytes - 2 * RT_MEMHEAP_SIZE) - 150 - RT_MEMHEAP_SIZE]_vars

\* C18 amended: 150 is rounded up to 152 first, and the call leaves
\* available_size = (pool_size - 2H) - 152 - H, which is 836 for H = 12.
C18_Grow152 ==
    [][ExGrow150 =>
          /\ hist'.ret = hist'.p /\ halt' = "run"
          /\ hist'.rpath = "inplace"
          /\ heap'[TheHeap].available_size
               = (ExPoolBytes - 2 * RT_MEMHEAP_SIZE) - 152 - RT_MEMHEAP_SIZE]_vars

C18_Witness ==
    /\ ops = 2 /\ halt = "run"
    /\ hist.op = "realloc" /\ hist.n = 150 /\ hist.rpath = "inplace"
    /\ hist.p = PoolStart + RT_MEMHEAP_SIZE /\ hist.ret = hist.p
    /\ heap[TheHeap].available_size
         = (ExPoolBytes - 2 * RT_MEMHEAP_SIZE) - 152 - RT_MEMHEAP_SIZE
    /\ Payload(PoolStart) = 152

Aligned(a) == a % RT_ALIGN_SIZE = 0

\* C19: every header of the block list, every node of the free list and
\* every pointer returned or held is a multiple of A, whatever state the
\* pool is in.
C19_Aligned ==
    /\ \A i \in 1 .. Len(Chain) : Aligned(Chain[i])
    /\ \A x \in FreeNodes : Aligned(x)
    /\ Aligned(hist.ret)
    /\ \A b \in held[1] : Aligned(b.p)

\* where the header b stands on the free list, 0 when it is not on it
Place(b) ==
    IF \E i \in 1 .. Len(FreeList) : FreeList[i] = b
    THEN CHOOSE i \in 1 .. Len(FreeList) :
             FreeList[i] = b /\ \A j \in 1 .. (i - 1) : FreeList[j] # b
    ELSE 0

\* C20: the block rt_memheap_alloc returns is the first one on the free
\* list, from free_list->next_free on, whose payload holds the normalized
\* size: it is on the list, it holds the size, and every block before it on
\* the list is too small.
C20_FirstFit ==
    [][hist'.op = "alloc" /\ halt' = "run" /\ hist'.ret # RT_NULL =>
          LET b == U(hist'.ret - RT_MEMHEAP_SIZE)
              size == AllocSize(hist'.n)
          IN  /\ Place(b) > 0
              /\ MEMITEM_SIZE(Pool, b) >= size
              /\ \A j \in 1 .. (Place(b) - 1) :
                    MEMITEM_SIZE(Pool, FreeList[j]) < size]_vars

\* an allocation that passed over the head of the free list, too small,
\* and took the block behind it
C20_Witness ==
    /\ Did("alloc") /\ hist.ret # RT_NULL /\ hist.n = 24
    /\ Len(FreeList) >= 1
    /\ Payload(FreeList[Len(FreeList)]) = 12
    /\ FreeList[Len(FreeList)] < U(hist.ret - RT_MEMHEAP_SIZE)
    /\ C1_BlockList /\ C4_FreeList

\* the pool a step leaves
PoolNext == [mem |-> mem', heap |-> heap', fault |-> FALSE]

\* the list seq with the node x taken out
Without(seq, x) == SelectSeq(seq, LAMBDA y : y # x)

\* C21: rt_memheap_alloc that takes the FREE block c of payload s for the
\* normalized size n splits exactly when s >= n + H + MINIALLOC.  Split: a
\* FREE remainder stands at c + H + n between c and the old successor of c,
\* c is off the free list, the remainder is its first node, available_size
\* is n + H less.  Otherwise c is taken whole: the free list is as before
\* with c taken out, available_size is s less, c keeps payload s and
\* s - n < H + MINIALLOC.
C21_AllocSplit ==
    [][hist'.op = "alloc" /\ halt' = "run" /\ hist'.ret # RT_NULL
       /\ U(hist'.ret - RT_MEMHEAP_SIZE) \in FreeBlocks
       => LET c   == U(hist'.ret - RT_MEMHEAP_SIZE)
              s   == MEMITEM_SIZE(Pool, c)
              n   == AllocSize(hist'.n)
              nxt == Fld(Pool, c, "next")
              r   == c + RT_MEMHEAP_SIZE + n
          IN  /\ Fld(PoolNext, c, "magic") = RT_MEMHEAP_MAGIC + RT_MEMHEAP_USED
              /\ IF s >= n + RT_MEMHEAP_SIZE + RT_MEMHEAP_MINIALLOC
                 THEN /\ hist'.apath = "split"
                      /\ Fld(PoolNext, r, "magic")
                           = RT_MEMHEAP_MAGIC + RT_MEMHEAP_FREED
                      /\ Fld(PoolNext, c, "next") = r
                      /\ Fld(PoolNext, r, "prev") = c
                      /\ Fld(PoolNext, r, "next") = nxt
                      /\ Fld(PoolNext, nxt, "prev") = r
                      /\ FreeList' = <<r>> \o Without(FreeList, c)
                      /\ heap'[TheHeap].available_size
                           = heap[TheHeap].available_size
                             - (n + RT_MEMHEAP_SIZE)
                 ELSE /\ hist'.apath = "whole"
                      /\ FreeList' = Without(FreeList, c)
                      /\ heap'[TheHeap].available_size
                           = heap[TheHeap].available_size - s
                      /\ Fld(PoolNext, c, "next") = nxt
                      /\ s - n < RT_MEMHEAP_SIZE + RT_MEMHEAP_MINIALLOC]_vars

\* C22: rt_memheap_free of the USED block b.  With the left neighbor FREE
\* the merged block is the left neighbor, where it was on the free list,
\* and b is not inserted; otherwise b goes first on the free list.  A FREE
\* right neighbor leaves the block list and the free list.  The free list
\* is 1 longer with no merge, as long with one, 1 shorter with two, and
\* available_size is payload(b) more, and H more for each merge.
C22_FreeMerges ==
    [][hist'.op = "free" /\ halt' = "run" /\ hist'.p # RT_NULL
       /\ U(hist'.p - RT_MEMHEAP_SIZE) \in Blocks
       /\ ~IsFree(U(hist'.p - RT_MEMHEAP_SIZE))
       => LET b      == U(hist'.p - RT_MEMHEAP_SIZE)
              lft    == Fld(Pool, b, "prev")
              rgt    == Fld(Pool, b, "next")
              left   == IsFree(lft)
              right  == IsFree(rgt)
              merges == (IF left THEN 1 ELSE 0) + (IF right THEN 1 ELSE 0)
              kept   == IF right THEN Without(FreeList, rgt) ELSE FreeList
              whole  == IF left THEN lft ELSE b
              after  == IF right THEN Fld(Pool, rgt, "next") ELSE rgt
          IN  /\ FreeList' = IF left THEN kept ELSE <<b>> \o kept
              /\ Len(FreeList') = Len(FreeList) + 1 - merges
              /\ heap'[TheHeap].available_size
                   = U(heap[TheHeap].available_size + Payload(b)
                       + merges * RT_MEMHEAP_SIZE)
              /\ Fld(PoolNext, whole, "magic")
                   = RT_MEMHEAP_MAGIC + RT_MEMHEAP_FREED
              /\ merges > 0 => /\ Fld(PoolNext, whole, "next") = after
                               /\ Fld(PoolNext, after, "prev") = whole
              /\ left => b \notin Blocks'
              /\ right => rgt \notin Blocks' /\ rgt \notin FreeNodes']_vars

\* the step is rt_memheap_realloc returning from a call made on the USED
\* block of the block list at hist'.p with a size other than 0
Reallocs ==
    /\ hist'.op = "realloc" /\ halt' = "run"
    /\ hist'.p # RT_NULL /\ hist'.n # 0
    /\ U(hist'.p - RT_MEMHEAP_SIZE) \in Blocks
    /\ ~IsFree(U(hist'.p - RT_MEMHEAP_SIZE))

\* C23: rt_memheap_realloc(heap, p, n) with the normalized n above the old
\* payload returns p exactly when the successor r of the block is FREE and
\* payload(r) + old > n + MINIALLOC; then a FREE remainder of payload
\* payload(r) + old - n has its header at p + n, first on the free list,
\* and available_size is n - old less.  In every other case the result is
\* another pointer or NULL.
C23_GrowInPlace ==
    [][Reallocs /\ AllocSize(hist'.n) > Payload(U(hist'.p - RT_MEMHEAP_SIZE))
       => LET b   == U(hist'.p - RT_MEMHEAP_SIZE)
              old == Payload(b)
              n   == AllocSize(hist'.n)
              r   == Fld(Pool, b, "next")
              np  == hist'.p + n
          IN  /\ hist'.ret = hist'.p
                   <=> IsFree(r) /\ Payload(r) + old > n + RT_MEMHEAP_MINIALLOC
              /\ hist'.ret = hist'.p =>
                    /\ Fld(PoolNext, b, "next") = np
                    /\ Fld(PoolNext, np, "magic")
                         = RT_MEMHEAP_MAGIC + RT_MEMHEAP_FREED
                    /\ Fld(PoolNext, np, "prev") = b
                    /\ Fld(PoolNext, np, "next") = Fld(Pool, r, "next")
                    /\ Fld(PoolNext, np, "next") - np - RT_MEMHEAP_SIZE
                         = Payload(r) + old - n
                    /\ FreeList' = <<np>> \o Without(FreeList, r)
                    /\ heap'[TheHeap].available_size
                         = heap[TheHeap].available_size - (n - old)]_vars

\* C24: rt_memheap_realloc(heap, p, n) with the normalized n not above the
\* old payload returns p.  With old - n < H + MINIALLOC nothing in the pool
\* changes; with old - n >= H + MINIALLOC, equality included, a FREE block
\* is split off with its header at p + n, takes in a FREE right neighbor,
\* goes first on the free list, and available_size is again the sum of the
\* FREE payloads.
C24_Shrink ==
    [][Reallocs /\ AllocSize(hist'.n) <= Payload(U(hist'.p - RT_MEMHEAP_SIZE))
       => LET b   == U(hist'.p - RT_MEMHEAP_SIZE)
              old == Payload(b)
              n   == AllocSize(hist'.n)
              r   == Fld(Pool, b, "next")
              np  == hist'.p + n
          IN  /\ hist'.ret = hist'.p
              /\ IF old - n < RT_MEMHEAP_SIZE + RT_MEMHEAP_MINIALLOC
                 THEN mem' = mem /\ heap' = heap
                 ELSE /\ Fld(PoolNext, b, "next") = np
                      /\ Fld(PoolNext, np, "magic")
                           = RT_MEMHEAP_MAGIC + RT_MEMHEAP_FREED
                      /\ Fld(PoolNext, np, "prev") = b
                      /\ Fld(PoolNext, np, "next")
                           = IF IsFree(r) THEN Fld(Pool, r, "next") ELSE r
                      /\ FreeList' = <<np>> \o (IF IsFree(r)
                                                 THEN Without(FreeList, r)
                                                 ELSE FreeList)
                      /\ heap'[TheHeap].available_size
                           = SumPayload(FreeBlocks)']_vars

\* the USED blocks of the block list other than the one the call of the
\* step is made on
Others ==
    {u \in Blocks : ~IsFree(u) /\ u # U(hist'.p - RT_MEMHEAP_SIZE)}

\* the step leaves the field f of the header u as it was
Keeps(u, f) == Fld(PoolNext, u, f) = Fld(Pool, u, f)

\* C25 as stated: a call made on another block writes no field of the
\* header of a USED block: magic, pool_ptr, next and prev stay as they were.
C25_UsedHeaderKept ==
    [][halt' # "fault" =>
          \A u \in Others :
              /\ Keeps(u, "magic") /\ Keeps(u, "pool_ptr")
              /\ Keeps(u, "next") /\ Keeps(u, "prev")]_vars

\* C25 without prev: a call made on another block leaves magic, pool_ptr and
\* next of a USED block as they were; prev it sets anew when the block
\* before is split or merged, and then to the header now before the block.
C25_UsedHeaderButPrev ==
    [][halt' # "fault" =>
          \A u \in Others :
              /\ Keeps(u, "magic") /\ Keeps(u, "pool_ptr")
              /\ Keeps(u, "next")
              /\ \/ Keeps(u, "prev")
                 \/ Fld(PoolNext, Fld(PoolNext, u, "prev"), "next") = u]_vars

\* the step is thread t coming back from a call whose rt_sem_take failed:
\* from a take no other step leads straight back
TakeFailing(t) == th[t].pc \in DOMAIN AfterTake /\ th'[t].pc = "idle"

\* C26: when rt_sem_take fails, rt_memheap_alloc and rt_memheap_realloc
\* return NULL and rt_memheap_free returns; the code is in the thread's
\* error slot, the semaphore count, every word of the pool and the
\* descriptor are as before, and a USED block passed to rt_memheap_free or
\* rt_memheap_realloc is still USED and off the free list.
C26_TakeFails ==
    [][\A t \in ThreadsMT : TakeFailing(t) =>
          LET T == th[t]
          IN  /\ th'[t].error # RT_EOK
              /\ mem' = mem /\ heap' = heap /\ halt' = "run"
              /\ T.pc # "free_take" =>
                    held'[t] = Owned(t, T.op, T.n, T.p, RT_NULL)
              /\ T.op = "alloc" => held'[t] = held[t]
              /\ T.op = "realloc" /\ T.n # 0 /\ T.pc # "free_take" =>
                    held'[t] = held[t]
              /\ /\ T.p # RT_NULL
                 /\ U(T.p - RT_MEMHEAP_SIZE) \in Blocks
                 /\ ~IsFree(U(T.p - RT_MEMHEAP_SIZE))
                 => /\ Fld(PoolNext, U(T.p - RT_MEMHEAP_SIZE), "magic")
                          = RT_MEMHEAP_MAGIC + RT_MEMHEAP_USED
                    /\ U(T.p - RT_MEMHEAP_SIZE) \notin FreeNodes']_vars

\* a free whose take failed while the other thread held the semaphore: the
\* block is still USED and the count still 0
C26_Witness ==
    /\ halt = "run"
    /\ \E t \in ThreadsMT :
          /\ th[t].pc = "idle" /\ "error" \in DOMAIN th[t]
          /\ th[t].error # RT_EOK
          /\ \E u \in ThreadsMT :
                /\ u # t /\ th[u].pc \in InCS /\ th[u].q = RT_NULL
                /\ \E b \in Blocks :
                      /\ ~IsFree(b)
                      /\ b + RT_MEMHEAP_SIZE \notin Ptrs(t) \cup Ptrs(u)
    /\ heap[TheHeap].lock = 0

\* the free list of pool h: the nodes found by following next_free from its
\* sentinel; 0 ends a walk that leaves the memory or does not come back
RECURSIVE FreeFromOf(_, _, _)
FreeFromOf(h, x, fuel) ==
    IF x = heap[h].free_list THEN <<>>
    ELSE IF fuel = 0 \/ ~ValidItem(Pool, x) THEN <<0>>
    ELSE <<x>> \o FreeFromOf(h, Fld(Pool, x, "next_free"), fuel - 1)

FreeListOf(h) == FreeFromOf(h, Fld(Pool, heap[h].free_list, "next_free"),
                            Cardinality(DOMAIN mem))

\* the pool recorded in the header of the block at ptr
PoolOf(ptr) == HeapOf(Fld(Pool, U(ptr - RT_MEMHEAP_SIZE), "pool_ptr"))

\* C27: a call rt_memheap_realloc(heap, p, n) with heap not the pool
\* recorded in p's header ends in an assertion, and the lock, the free list,
\* available_size and max_used_size of both pools are as before.
C27_WrongPoolAsserts ==
    [][\A h \in TwoHeaps, n \in TwoSizes : \A p \in Ptrs(1) :
          PoolOf(p) # h /\ ReallocTwo(1, h, p, n) =>
             /\ halt' = "assert"
             /\ \A g \in TwoHeaps :
                   /\ heap'[g].lock = heap[g].lock
                   /\ heap'[g].available_size = heap[g].available_size
                   /\ heap'[g].max_used_size = heap[g].max_used_size
                   /\ FreeListOf(g)' = FreeListOf(g)]_vars

\* C28: the tailer is at start_addr + pool_size - RT_MEMHEAP_SIZE, USED,
\* with next = start_addr; it is the end of the block list and not on the
\* free list; the header at start_addr has prev = tailer; a free of the
\* first block merges with no left neighbor, and no block reaches past the
\* tailer.
C28_Tailer ==
    halt = "run" =>
        /\ heap[TheHeap].start_addr = PoolStart
        /\ heap[TheHeap].pool_size = RT_ALIGN_DOWN(PoolBytes, RT_ALIGN_SIZE)
        /\ Fld(Pool, Tailer, "magic") = RT_MEMHEAP_MAGIC + RT_MEMHEAP_USED
        /\ Fld(Pool, Tailer, "next") = heap[TheHeap].start_addr
        /\ ChainEnds
        /\ Tailer \notin FreeNodes
        /\ RT_MEMHEAP_MASK(Fld(Pool, heap[TheHeap].start_addr, "magic"))
              = RT_MEMHEAP_MAGIC
        /\ Fld(Pool, heap[TheHeap].start_addr, "prev") = Tailer
        /\ \A b \in Blocks : Fld(Pool, b, "next") <= Tailer
        /\ hist.op \in {"free", "realloc"}
              /\ U(hist.p - RT_MEMHEAP_SIZE) = heap[TheHeap].start_addr
              => hist.fpath \notin {"left", "both"}

====
